---- MODULE Spec2Model ----
(***************************************************************************)
(* Layout reconstruction of src/utils/nativePdfToDocx.ts                   *)
(* (convertNativePdfToDocx): the page loop, the Y/X sort, the grouping of  *)
(* text items into lines, header/footer detection, column detection and    *)
(* the building of paragraphs and borderless tables.                       *)
(*                                                                         *)
(* Numbers are integers.  The code's products with 0.5, 1.5 and its        *)
(* division by str.length are kept exact by cross-multiplication.  A text  *)
(* is a sequence of one-character strings.  A NaN horizontal scale         *)
(* (transform[0]) is the item's field nan.                                 *)
(***************************************************************************)
EXTENDS Integers, Sequences, FiniteSets, TLC

VARIABLES pdf, pc, pageNum, pageHeight, textItems, allItems, k,
          currentLineY, currentLineItems, lines, sections, saved,
          jobs, chunks, chunk, inFlight, allPc

\* The state of a conversion (convertNativePdfToDocx).
pageVars == <<pdf, pc, pageNum, pageHeight, textItems, allItems, k,
              currentLineY, currentLineItems, lines, sections, saved>>

\* The state of the batch converter (src/components/NativePdfConverter.tsx).
batchVars == <<jobs, chunks, chunk, inFlight, allPc>>

vars == <<pdf, pc, pageNum, pageHeight, textItems, allItems, k,
          currentLineY, currentLineItems, lines, sections, saved,
          jobs, chunks, chunk, inFlight, allPc>>

\* ------------------------------------------------------------------ bounds
\* The largest number of text items on a page of the checked documents.
MaxItems == 3

\* The largest number of text items of a page of a two-page document.
MaxDocItems == 2

\* ------------------------------------------------------------- arithmetic
Abs(n) == IF n < 0 THEN -n ELSE n

\* Math.sqrt on the perfect squares the checked transforms produce.
Sqrt(n) == CHOOSE r \in 0..n : r * r = n

\* Math.round(n / 2) for an integer n >= 0 (halves round up).
RoundHalf(n) == (n + 1) \div 2

\* ------------------------------------------------------------------ items
\* A text item of pdf.js: str, transform [a, b, c, d, tx, ty], width.
TextItem(str, a, b, x, y, w) ==
    [str |-> str, transform |-> <<a, b, -b, a, x, y>>, width |-> w, nan |-> FALSE]

NaNItem(str, x, y, w) ==
    [str |-> str, transform |-> <<0, 0, 0, 0, x, y>>, width |-> w, nan |-> TRUE]

\* !item.str.trim(): the text is empty or whitespace only.
TrimEmpty(str) == \A i \in 1..Len(str) : str[i] = " "

\* Math.sqrt(transform[0]**2 + transform[1]**2); meaningful when ~it.nan.
FontSize(it) == Sqrt(it.transform[1] * it.transform[1] + it.transform[2] * it.transform[2])

X(it) == it.transform[5]
Y(it) == it.transform[6]

\* ------------------------------------------------------------------- sort
Perms(n) == {p \in [1..n -> 1..n] : \A i, j \in 1..n : p[i] = p[j] => i = j}

\* The comparator of allItems.sort: descending Y when the Ys differ by more
\* than 5, else ascending X.
CompareYX(a, b) ==
    LET yDiff == Y(b) - Y(a)
    IN  IF Abs(yDiff) > 5 THEN yDiff ELSE X(a) - X(b)

\* The comparator of currentLineItems.sort.
CompareX(a, b) == X(a) - X(b)

\* A consistent comparison function, as Array.prototype.sort requires.
ConsistentYX(s) ==
    \A i, j, l \in 1..Len(s) :
        /\ (CompareYX(s[i], s[j]) = 0 /\ CompareYX(s[j], s[l]) = 0) => CompareYX(s[i], s[l]) = 0
        /\ (CompareYX(s[i], s[j]) < 0 /\ CompareYX(s[j], s[l]) < 0) => CompareYX(s[i], s[l]) < 0
        /\ (CompareYX(s[i], s[j]) = 0 /\ CompareYX(s[j], s[l]) < 0) => CompareYX(s[i], s[l]) < 0
        /\ (CompareYX(s[i], s[j]) < 0 /\ CompareYX(s[j], s[l]) = 0) => CompareYX(s[i], s[l]) < 0

Permuted(s, p) == [i \in 1..Len(s) |-> s[p[i]]]

\* Array.prototype.sort is stable: equal elements keep their order.
StableYX(s) ==
    LET p == CHOOSE q \in Perms(Len(s)) :
                 \A i, j \in 1..Len(s) : i < j =>
                     \/ CompareYX(s[q[i]], s[q[j]]) < 0
                     \/ CompareYX(s[q[i]], s[q[j]]) = 0 /\ q[i] < q[j]
    IN  Permuted(s, p)

\* Mutant: the line's items are left in the order they were pushed.
UnsortedX(s) == s

StableX(s) ==
    LET p == CHOOSE q \in Perms(Len(s)) :
                 \A i, j \in 1..Len(s) : i < j =>
                     \/ CompareX(s[q[i]], s[q[j]]) < 0
                     \/ CompareX(s[q[i]], s[q[j]]) = 0 /\ q[i] < q[j]
    IN  Permuted(s, p)

\* What allItems.sort may leave: the stable sorted order, or, when the
\* comparator is not consistent on the items, an implementation-defined
\* permutation of them.
SortOutcomes(s) ==
    IF ConsistentYX(s) THEN {StableYX(s)}
    ELSE {Permuted(s, p) : p \in Perms(Len(s))}

\* --------------------------------------------------------- column detection
\* gap > gapThreshold for the adjacent items prev, curr of a line:
\*   charWidth = prev.width > 0 ? prev.width / prev.str.length : fontSize * 0.5
\*   prevEnd   = prev.transform[4] + (prev.width || prev.str.length * charWidth)
\*   gap       = curr.transform[4] - prevEnd;  gapThreshold = charWidth * 3
\* Mutant: the comparison is turned around (gap < gapThreshold).
GapBelow(prev, curr) ==
    LET n == Len(prev.str)
        w == prev.width
    IN  IF w > 0
        THEN n > 0 /\ (X(curr) - (X(prev) + w)) * n < 3 * w
        ELSE IF prev.nan THEN FALSE
        ELSE IF w # 0
        THEN 2 * (X(curr) - (X(prev) + w)) < 3 * FontSize(prev)
        ELSE 2 * (X(curr) - X(prev)) - n * FontSize(prev) < 3 * FontSize(prev)

\* Mutant: a gap equal to the threshold already splits (gap >= gapThreshold).
GapReaches(prev, curr) ==
    LET n == Len(prev.str)
        w == prev.width
    IN  IF w > 0
        THEN n > 0 /\ (X(curr) - (X(prev) + w)) * n >= 3 * w
        ELSE IF prev.nan THEN FALSE
        ELSE IF w # 0
        THEN 2 * (X(curr) - (X(prev) + w)) >= 3 * FontSize(prev)
        ELSE 2 * (X(curr) - X(prev)) - n * FontSize(prev) >= 3 * FontSize(prev)

GapExceeds(prev, curr) ==
    LET n == Len(prev.str)
        w == prev.width
    IN  IF w > 0
        THEN n > 0 /\ (X(curr) - (X(prev) + w)) * n > 3 * w
        ELSE IF prev.nan THEN FALSE
        ELSE IF w # 0
        THEN 2 * (X(curr) - (X(prev) + w)) > 3 * FontSize(prev)
        ELSE 2 * (X(curr) - X(prev)) - n * FontSize(prev) > 3 * FontSize(prev)

RECURSIVE ColumnLoopNoPush(_, _, _, _)
\* Mutant: at a gap the open column is reset without being pushed.
ColumnLoopNoPush(items, i, columns, currentColumn) ==
    IF i > Len(items) THEN Append(columns, currentColumn)
    ELSE IF GapExceeds(items[i - 1], items[i])
    THEN ColumnLoopNoPush(items, i + 1, columns, <<items[i]>>)
    ELSE ColumnLoopNoPush(items, i + 1, columns, Append(currentColumn, items[i]))

RECURSIVE ColumnLoop(_, _, _, _)
\* The loop of lines 177-198: columns and currentColumn before item i.
ColumnLoop(items, i, columns, currentColumn) ==
    IF i > Len(items) THEN Append(columns, currentColumn)
    ELSE IF GapExceeds(items[i - 1], items[i])
    THEN ColumnLoop(items, i + 1, Append(columns, currentColumn), <<items[i]>>)
    ELSE ColumnLoop(items, i + 1, columns, Append(currentColumn, items[i]))

\* The columns of a line (lines 174-198).
DetectColumns(items) == ColumnLoop(items, 2, <<>>, <<items[1]>>)

\* ------------------------------------------------------------------ blocks
\* size: Math.max(16, Math.round(fSize * 1.5)); NaN when fSize is NaN.
RunSize(it) ==
    IF it.nan THEN [nan |-> TRUE, value |-> 0]
    ELSE LET r == RoundHalf(3 * FontSize(it))
         IN  [nan |-> FALSE, value |-> IF r > 16 THEN r ELSE 16]

RECURSIVE JoinSpace(_)
\* colItems.map(it => it.str).join(' ')
JoinSpace(colItems) ==
    IF Len(colItems) = 0 THEN <<>>
    ELSE IF Len(colItems) = 1 THEN colItems[1].str
    ELSE colItems[1].str \o <<" ">> \o JoinSpace(Tail(colItems))

RECURSIVE FullTextLoop(_, _, _, _)
\* The forEach of lines 245-252: fullText and lastX after item idx.
FullTextLoop(colItems, idx, fullText, lastX) ==
    IF idx > Len(colItems) THEN fullText
    ELSE LET it == colItems[idx]
             sp == idx > 1 /\ lastX # -1 /\ X(it) - lastX > 2
         IN  FullTextLoop(colItems, idx + 1,
                          (IF sp THEN fullText \o <<" ">> ELSE fullText) \o it.str,
                          X(it) + it.width)

FullText(colItems) == FullTextLoop(colItems, 1, <<>>, -1)

\* Mutant: a cell's width depends on the number of its column's items.
TableOfByItems(columns) ==
    [kind  |-> "table",
     cells |-> [c \in 1..Len(columns) |->
                  [text  |-> JoinSpace(columns[c]),
                   size  |-> RunSize(columns[c][1]),
                   width |-> [num |-> 100,
                              den |-> Len(columns) * Len(columns[c])]]]]

\* Mutant: the row is built without the cell of the last column.
TableOfAllButLast(columns) ==
    [kind  |-> "table",
     cells |-> [c \in 1..Len(columns) - 1 |->
                  [text  |-> JoinSpace(columns[c]),
                   size  |-> RunSize(columns[c][1]),
                   width |-> [num |-> 100, den |-> Len(columns)]]]]

TableOf(columns) ==
    [kind  |-> "table",
     cells |-> [c \in 1..Len(columns) |->
                  [text  |-> JoinSpace(columns[c]),
                   size  |-> RunSize(columns[c][1]),
                   width |-> [num |-> 100, den |-> Len(columns)]]]]

\* Mutant: indent and size are taken from the last item of the line.
ParagraphOfLast(colItems) ==
    [kind   |-> "paragraph",
     text   |-> FullText(colItems),
     size   |-> RunSize(colItems[Len(colItems)]),
     indent |-> X(colItems[Len(colItems)]) * 15]

ParagraphOf(colItems) ==
    [kind   |-> "paragraph",
     text   |-> FullText(colItems),
     size   |-> RunSize(colItems[1]),
     indent |-> X(colItems[1]) * 15]

\* Mutant: the table branch is taken for one column too (columns.length >= 1).
LineToChildTable(line) == TableOf(DetectColumns(line.items))

\* One iteration of the loop over targetLines (lines 169-273).
LineToChild(line) ==
    LET columns == DetectColumns(line.items)
    IN  IF Len(columns) > 1 THEN TableOf(columns) ELSE ParagraphOf(columns[1])

\* Mutant: the children are put out last line first.
processLinesReversed(targetLines) ==
    [i \in 1..Len(targetLines) |-> LineToChild(targetLines[Len(targetLines) + 1 - i])]

processLinesToChildren(targetLines) ==
    [i \in 1..Len(targetLines) |-> LineToChild(targetLines[i])]

\* Mutant: the body filter forgets the footer flag.
IsBodyNotHeader(l) == ~l.isHeader

IsBody(l) == ~l.isHeader /\ ~l.isFooter
IsHeader(l) == l.isHeader
IsFooter(l) == l.isFooter

PageBreakPara == [kind |-> "pagebreak"]

\* -------------------------------------------------------------- documents
\* The text items the checked pages are made of.  The page height is 40: a
\* header line lies above 36, a footer line below 4.
\* Items set on the baseline 20:
LinePool ==
    { TextItem(<<"a", "b">>, 4, 0, -5, 20, 4),    \* right edge at -1
      TextItem(<<"e", "f">>, 4, 0,  4, 20, 4),
      TextItem(<<"g", "h">>, 4, 0, 14, 20, 4),    \* 6 after the item at 4: 3 * charWidth
      TextItem(<<"i", "j">>, 4, 0, 40, 20, 4),    \* far to the right
      TextItem(<<" ">>,      4, 0,  4, 20, 4),    \* whitespace only
      TextItem(<<"k", "l">>, 4, 0, -1, 20, 0),    \* no width, touches the item at -5
      TextItem(<<" ", "m">>, 4, 0,  4, 20, -8),   \* negative width
      NaNItem(<<"z">>, 4, 20, 0),                 \* NaN scale
      TextItem(<<"z", "z">>, 0, 0, 4, 20, 0) }    \* zero scale

\* Items spread over the page:
PagePool ==
    { TextItem(<<"e", "f">>, 5, 12, 4, 20, 8),    \* font size 13
      TextItem(<<"i", "j">>, 4, 0, 40, 20, 4),
      TextItem(<<" ">>,      4, 0,  4, 20, 4),    \* whitespace only
      TextItem(<<"n", "o">>, 4, 0, 13, 23, 4),    \* slightly higher, to the right
      TextItem(<<"p", "q">>, 6, 8, 40, 23, 10),   \* font size 10
      TextItem(<<"r", "s">>, 4, 0, 40, 26, 4),
      TextItem(<<"t", "u">>, 4, 0,  0, 38, 4),    \* header region
      TextItem(<<"v", "w">>, 4, 0,  0,  2, 4),    \* footer region
      TextItem(<<"x", "y">>, 4, 0,  0, -1, 4),    \* baseline -1
      NaNItem(<<"z">>, 4, 20, 0) }                \* NaN scale

\* Items on and next to the two region thresholds of a page 40 high:
RegionPool ==
    { TextItem(<<"A">>, 4, 0, 0, 36, 4),          \* exactly 0.90 * pageHeight
      TextItem(<<"B">>, 4, 0, 0, 37, 4),
      TextItem(<<"C">>, 4, 0, 0,  4, 4),          \* exactly 0.10 * pageHeight
      TextItem(<<"D">>, 4, 0, 0,  3, 4) }

\* Items of font size 10, each 3 below and to the right of the one before:
ChainPool ==
    { TextItem(<<"E">>, 6, 8,  0, 26, 10),
      TextItem(<<"F">>, 6, 8, 20, 23, 10),
      TextItem(<<"G">>, 6, 8, 40, 20, 10) }

PageHeights == {40}

ItemSeqs ==
    UNION {[1..n -> LinePool] \cup [1..n -> PagePool] \cup [1..n -> RegionPool]
               \cup [1..n -> ChainPool] : n \in 0..MaxItems}

\* A page pdf.getPage / getTextContent decodes, and one it rejects.
GoodPages == {[ok |-> TRUE, height |-> h, items |-> s] : h \in PageHeights, s \in ItemSeqs}
BadPage == [ok |-> FALSE, height |-> 0, items |-> <<>>]

\* Documents of two pages: at most MaxDocItems items to a page, the page 40
\* or 20 high.  On a page 40 high the item at y=19 is a body item and the
\* item at y=3 a footer item; on a page 20 high the first is a header item
\* and the second a body item.
DocPool ==
    { TextItem(<<"a", "b">>, 4, 0,  0, 19, 4),
      TextItem(<<"e", "f">>, 4, 0, 40,  3, 4),
      TextItem(<<" ">>,      4, 0,  4, 19, 4) }   \* whitespace only

DocHeights == {40, 20}

DocPages ==
    {[ok |-> TRUE, height |-> h, items |-> s] :
        h \in DocHeights, s \in UNION {[1..n -> DocPool] : n \in 0..MaxDocItems}}

Docs == {<<a, b>> : a, b \in DocPages \cup {BadPage}}

\* ------------------------------------------------------------------- state
\* No batch is under way.
NoBatch ==
    /\ jobs = <<>>
    /\ chunks = <<>>
    /\ chunk = 1
    /\ inFlight = {}
    /\ allPc = "ready"

Init ==
    /\ pdf \in {<<p>> : p \in GoodPages \cup {BadPage}}
    /\ pc = "getPage"
    /\ pageNum = 1
    /\ pageHeight = 0
    /\ textItems = <<>>
    /\ allItems = <<>>
    /\ k = 1
    /\ currentLineY = -1
    /\ currentLineItems = <<>>
    /\ lines = <<>>
    /\ sections = <<>>
    /\ saved = 0
    /\ NoBatch

numPages == Len(pdf)

\* Lines 48-57: the page is decoded; every item becomes a new object.
GetPage ==
    /\ pc = "getPage"
    /\ pageNum <= numPages
    /\ pdf[pageNum].ok
    /\ pageHeight' = pdf[pageNum].height
    /\ textItems' = [i \in 1..Len(pdf[pageNum].items) |->
                        [id        |-> i,
                         str       |-> pdf[pageNum].items[i].str,
                         transform |-> pdf[pageNum].items[i].transform,
                         width     |-> pdf[pageNum].items[i].width,
                         nan       |-> pdf[pageNum].items[i].nan]]
    /\ pc' = "sort"
    /\ UNCHANGED <<batchVars, pdf, pageNum, allItems, k, currentLineY, currentLineItems,
                   lines, sections, saved>>

\* Mutant: the error of a page is swallowed and the loop goes on.
GetPageSkips ==
    /\ pc = "getPage"
    /\ pageNum <= numPages
    /\ ~pdf[pageNum].ok
    /\ pageNum' = pageNum + 1
    /\ pc' = IF pageNum + 1 <= numPages THEN "getPage" ELSE "pack"
    /\ UNCHANGED <<batchVars, pdf, pageHeight, textItems, allItems, k, currentLineY,
                   currentLineItems, lines, sections, saved>>

\* Lines 48, 326-329: decoding throws; the catch logs and rethrows.
GetPageFails ==
    /\ pc = "getPage"
    /\ pageNum <= numPages
    /\ ~pdf[pageNum].ok
    /\ pc' = "failed"
    /\ UNCHANGED <<batchVars, pdf, pageNum, pageHeight, textItems, allItems, k, currentLineY,
                   currentLineItems, lines, sections, saved>>

\* Mutant: the lines of the page before are not cleared.
SortItemsKeepsLines ==
    /\ pc = "sort"
    /\ allItems' \in SortOutcomes(textItems)
    /\ k' = 1
    /\ currentLineY' = -1
    /\ currentLineItems' = <<>>
    /\ pc' = "group"
    /\ UNCHANGED <<batchVars, pdf, pageNum, pageHeight, textItems, lines, sections, saved>>

\* Mutant: the open line of the page before is not cleared.
SortItemsKeepsOpenLine ==
    /\ pc = "sort"
    /\ allItems' \in SortOutcomes(textItems)
    /\ k' = 1
    /\ lines' = <<>>
    /\ pc' = "group"
    /\ UNCHANGED <<batchVars, pdf, pageNum, pageHeight, textItems, currentLineY,
                   currentLineItems, sections, saved>>

\* Lines 111-125: the sort, and the loop's variables.
SortItems ==
    /\ pc = "sort"
    /\ allItems' \in SortOutcomes(textItems)
    /\ k' = 1
    /\ currentLineY' = -1
    /\ currentLineItems' = <<>>
    /\ lines' = <<>>
    /\ pc' = "group"
    /\ UNCHANGED <<batchVars, pdf, pageNum, pageHeight, textItems, sections, saved>>

\* Math.abs(currentLineY - y) < h * 0.5
WithinTolerance(item) ==
    ~item.nan /\ 2 * Abs(currentLineY - Y(item)) < FontSize(item)

ClosedLine(item) ==
    [y        |-> currentLineY,
     items    |-> StableX(currentLineItems),
     isHeader |-> FALSE,
     isFooter |-> FALSE,
     height   |-> IF item.nan THEN [nan |-> TRUE, value |-> 0]
                  ELSE [nan |-> FALSE, value |-> FontSize(item)]]

\* Mutant: a whitespace item is not skipped, it opens or joins a line.
BlankJoins ==
    /\ pc = "group"
    /\ k <= Len(allItems)
    /\ TrimEmpty(allItems[k].str)
    /\ currentLineItems' = Append(currentLineItems, allItems[k])
    /\ currentLineY' = Y(allItems[k])
    /\ k' = k + 1
    /\ UNCHANGED <<batchVars, pdf, pc, pageNum, pageHeight, textItems, allItems, lines,
                   sections, saved>>

\* Line 128: a whitespace item is skipped.
SkipBlank ==
    /\ pc = "group"
    /\ k <= Len(allItems)
    /\ TrimEmpty(allItems[k].str)
    /\ k' = k + 1
    /\ UNCHANGED <<batchVars, pdf, pc, pageNum, pageHeight, textItems, allItems, currentLineY,
                   currentLineItems, lines, sections, saved>>

\* Lines 134-136: the item joins the current line.
JoinLine ==
    /\ pc = "group"
    /\ k <= Len(allItems)
    /\ ~TrimEmpty(allItems[k].str)
    /\ currentLineY = -1 \/ WithinTolerance(allItems[k])
    /\ currentLineItems' = Append(currentLineItems, allItems[k])
    /\ currentLineY' = Y(allItems[k])
    /\ k' = k + 1
    /\ UNCHANGED <<batchVars, pdf, pc, pageNum, pageHeight, textItems, allItems, lines,
                   sections, saved>>

\* Lines 137-149: the current line is closed and the item starts the next.
CloseLine ==
    /\ pc = "group"
    /\ k <= Len(allItems)
    /\ ~TrimEmpty(allItems[k].str)
    /\ ~(currentLineY = -1 \/ WithinTolerance(allItems[k]))
    /\ lines' = Append(lines, ClosedLine(allItems[k]))
    /\ currentLineItems' = <<allItems[k]>>
    /\ currentLineY' = Y(allItems[k])
    /\ k' = k + 1
    /\ UNCHANGED <<batchVars, pdf, pc, pageNum, pageHeight, textItems, allItems, sections, saved>>

LastLine ==
    [y        |-> currentLineY,
     items    |-> StableX(currentLineItems),
     isHeader |-> FALSE,
     isFooter |-> FALSE,
     height   |-> [nan |-> FALSE, value |-> 12]]

\* Mutant: the loop ends without pushing the open line.
FlushLineForgets ==
    /\ pc = "group"
    /\ k > Len(allItems)
    /\ pc' = "detect"
    /\ UNCHANGED <<batchVars, pdf, pageNum, pageHeight, textItems, allItems, k, currentLineY,
                   currentLineItems, lines, sections, saved>>

\* Mutant: the open line is pushed without the test of its length.
FlushLineAlways ==
    /\ pc = "group"
    /\ k > Len(allItems)
    /\ lines' = Append(lines, LastLine)
    /\ pc' = "detect"
    /\ UNCHANGED <<batchVars, pdf, pageNum, pageHeight, textItems, allItems, k, currentLineY,
                   currentLineItems, sections, saved>>

\* Lines 151-154: the last open line, when it holds an item.
FlushLine ==
    /\ pc = "group"
    /\ k > Len(allItems)
    /\ lines' = IF Len(currentLineItems) > 0 THEN Append(lines, LastLine) ELSE lines
    /\ pc' = "detect"
    /\ UNCHANGED <<batchVars, pdf, pageNum, pageHeight, textItems, allItems, k, currentLineY,
                   currentLineItems, sections, saved>>

\* Mutant: the two thresholds are exchanged.
FlaggedExchanged(line) ==
    [line EXCEPT !.isHeader = line.isHeader \/ 10 * line.y > pageHeight,
                 !.isFooter = line.isFooter \/ 10 * line.y < 9 * pageHeight]

\* Mutant: a line exactly on a threshold is flagged too.
FlaggedAtThreshold(line) ==
    [line EXCEPT !.isHeader = line.isHeader \/ 10 * line.y >= 9 * pageHeight,
                 !.isFooter = line.isFooter \/ 10 * line.y <= pageHeight]

\* Lines 156-163: line.y > pageHeight * 0.90, line.y < pageHeight * 0.10.
Flagged(line) ==
    [line EXCEPT !.isHeader = line.isHeader \/ 10 * line.y > 9 * pageHeight,
                 !.isFooter = line.isFooter \/ 10 * line.y < pageHeight]

DetectHeaderFooter ==
    /\ pc = "detect"
    /\ lines' = [i \in 1..Len(lines) |-> Flagged(lines[i])]
    /\ pc' = "layout"
    /\ UNCHANGED <<batchVars, pdf, pageNum, pageHeight, textItems, allItems, k, currentLineY,
                   currentLineItems, sections, saved>>

bodyParams ==
    (IF pageNum > 1 THEN <<PageBreakPara>> ELSE <<>>)
        \o processLinesToChildren(SelectSeq(lines, IsBody))
headerParams == processLinesToChildren(SelectSeq(lines, IsHeader))
footerParams == processLinesToChildren(SelectSeq(lines, IsFooter))

\* Mutant: the section is put in front of the sections pushed before.
BuildSectionInFront ==
    /\ pc = "layout"
    /\ sections' = <<[children |-> bodyParams,
                      headers  |-> headerParams,
                      footers  |-> footerParams]>> \o sections
    /\ pageNum' = pageNum + 1
    /\ pc' = IF pageNum + 1 <= numPages THEN "getPage" ELSE "pack"
    /\ UNCHANGED <<batchVars, pdf, pageHeight, textItems, allItems, k, currentLineY,
                   currentLineItems, lines, saved>>

\* Lines 277-319: the three groups of lines become the page's section.  The
\* checked pages paint no image, so that no image paragraph is appended.
BuildSection ==
    /\ pc = "layout"
    /\ sections' = Append(sections, [children |-> bodyParams,
                                     headers  |-> headerParams,
                                     footers  |-> footerParams])
    /\ pageNum' = pageNum + 1
    /\ pc' = IF pageNum + 1 <= numPages THEN "getPage" ELSE "pack"
    /\ UNCHANGED <<batchVars, pdf, pageHeight, textItems, allItems, k, currentLineY,
                   currentLineItems, lines, saved>>

\* Lines 321-328: Packer.toBlob rejects; the catch block rethrows the error
\* and saveAs is not reached.
PackFails ==
    /\ pc = "pack"
    /\ pc' = "failed"
    /\ UNCHANGED <<batchVars, pdf, pageNum, pageHeight, textItems, allItems, k, currentLineY,
                   currentLineItems, lines, sections, saved>>

\* Lines 321-324: the document is packed and saved.
SaveDocx ==
    /\ pc = "pack"
    /\ saved' = saved + 1
    /\ pc' = "done"
    /\ UNCHANGED <<batchVars, pdf, pageNum, pageHeight, textItems, allItems, k, currentLineY,
                   currentLineItems, lines, sections>>

Next ==
    \/ GetPage
    \/ GetPageFails
    \/ SortItems
    \/ SkipBlank
    \/ JoinLine
    \/ CloseLine
    \/ FlushLine
    \/ DetectHeaderFooter
    \/ BuildSection
    \/ PackFails
    \/ SaveDocx

Spec == Init /\ [][Next]_vars

\* The conversion of a document of two pages.
InitDoc ==
    /\ pdf \in Docs
    /\ pc = "getPage"
    /\ pageNum = 1
    /\ pageHeight = 0
    /\ textItems = <<>>
    /\ allItems = <<>>
    /\ k = 1
    /\ currentLineY = -1
    /\ currentLineItems = <<>>
    /\ lines = <<>>
    /\ sections = <<>>
    /\ saved = 0
    /\ NoBatch

SpecDoc == InitDoc /\ [][Next]_vars

\* ------------------------------------------------------ batch conversion
\* NativePdfConverter.tsx, processAll: `i += 3` and `idle.slice(i, i + 3)`.
ChunkSize == 3

\* The largest number of jobs in the list.
MaxJobs == 7

\* The values the upload reports to onProgress: below 50 while the upload
\* runs, 50 when it has ended.
ProgressValues == {25, 50}

\* A job of the list (the fields the batch logic reads and writes).
Job(id, status) == [id |-> id, status |-> status]

\* The job lists processAll can find: handleFiles adds idle jobs, and jobs
\* converted one at a time before are completed.
JobLists ==
    UNION {{[i \in 1..n |-> Job(i, st[i])] : st \in [1..n -> {"idle", "completed"}]}
           : n \in 0..MaxJobs}

\* setJobs(prev => prev.map(j => j.id === id ? {...j, status} : j))
SetStatus(js, ids, status) ==
    [i \in 1..Len(js) |-> IF js[i].id \in ids THEN [js[i] EXCEPT !.status = status]
                                               ELSE js[i]]

Min(a, b) == IF a <= b THEN a ELSE b

\* Lines 72-75: for (let i = 0; i < idle.length; i += 3) chunks.push(idle.slice(i, i + 3))
RECURSIVE ChunksFrom(_, _, _)
ChunksFrom(idle, i, acc) ==
    IF i < Len(idle)
        THEN ChunksFrom(idle, i + ChunkSize,
                        Append(acc, SubSeq(idle, i + 1, Min(i + ChunkSize, Len(idle)))))
        ELSE acc

\* The ids of the jobs of a chunk.
IdsOf(c) == {c[i].id : i \in 1..Len(c)}

\* Lines 70-75: processAll takes the idle jobs of the list and cuts them into
\* chunks.
ProcessAll ==
    /\ allPc = "ready"
    /\ chunks' = ChunksFrom(SelectSeq(jobs, LAMBDA j : j.status = "idle"), 0, <<>>)
    /\ chunk' = 1
    /\ allPc' = "next"
    /\ UNCHANGED <<pageVars, jobs, inFlight>>

\* Line 78 and lines 43-49: chunk.map(j => processJob(j.id)) runs every
\* processJob of the chunk up to its await: the job is looked up, its status
\* becomes 'uploading' and its conversion call is made.
StartChunk ==
    /\ allPc = "next"
    /\ chunk <= Len(chunks)
    /\ LET found == {id \in IdsOf(chunks[chunk]) : \E i \in 1..Len(jobs) : jobs[i].id = id}
       IN  /\ jobs' = SetStatus(jobs, found, "uploading")
           /\ inFlight' = inFlight \cup found
    /\ allPc' = "await"
    /\ UNCHANGED <<pageVars, chunks, chunk>>

\* Lines 52-60: the conversion reports progress p.
Progress(id) ==
    /\ id \in inFlight
    /\ \E p \in ProgressValues :
          jobs' = SetStatus(jobs, {id}, IF p < 50 THEN "uploading" ELSE "processing")
    /\ UNCHANGED <<pageVars, chunks, chunk, inFlight, allPc>>

\* Line 63: the conversion call resolves.
ConversionResolves(id) ==
    /\ id \in inFlight
    /\ jobs' = SetStatus(jobs, {id}, "completed")
    /\ inFlight' = inFlight \ {id}
    /\ UNCHANGED <<pageVars, chunks, chunk, allPc>>

\* Lines 64-67: the conversion call rejects; the catch block records the
\* error and processJob itself resolves.
ConversionRejects(id) ==
    /\ id \in inFlight
    /\ jobs' = SetStatus(jobs, {id}, "error")
    /\ inFlight' = inFlight \ {id}
    /\ UNCHANGED <<pageVars, chunks, chunk, allPc>>

\* Promise.race in place of Promise.all: the loop goes on when the first
\* processJob of the chunk has resolved.
ChunkSettledEarly ==
    /\ allPc = "await"
    /\ IdsOf(chunks[chunk]) \ inFlight # {}
    /\ chunk' = chunk + 1
    /\ allPc' = "next"
    /\ UNCHANGED <<pageVars, jobs, chunks, inFlight>>

\* Lines 77-78: Promise.all resolves when every processJob of the chunk has
\* resolved, and the loop goes on to the next chunk.
ChunkSettled ==
    /\ allPc = "await"
    /\ IdsOf(chunks[chunk]) \cap inFlight = {}
    /\ chunk' = chunk + 1
    /\ allPc' = "next"
    /\ UNCHANGED <<pageVars, jobs, chunks, inFlight>>

\* Lines 77-80: no chunk is left and processAll returns.
ProcessAllReturns ==
    /\ allPc = "next"
    /\ chunk > Len(chunks)
    /\ allPc' = "done"
    /\ UNCHANGED <<pageVars, jobs, chunks, chunk, inFlight>>

\* The batch converter with its job list; no native conversion is running.
InitBatch ==
    /\ pdf = <<>>
    /\ pc = "none"
    /\ pageNum = 1
    /\ pageHeight = 0
    /\ textItems = <<>>
    /\ allItems = <<>>
    /\ k = 1
    /\ currentLineY = -1
    /\ currentLineItems = <<>>
    /\ lines = <<>>
    /\ sections = <<>>
    /\ saved = 0
    /\ jobs \in JobLists
    /\ chunks = <<>>
    /\ chunk = 1
    /\ inFlight = {}
    /\ allPc = "ready"

NextBatch ==
    \/ ProcessAll
    \/ StartChunk
    \/ \E id \in 1..MaxJobs : Progress(id)
    \/ \E id \in 1..MaxJobs : ConversionResolves(id)
    \/ \E id \in 1..MaxJobs : ConversionRejects(id)
    \/ ChunkSettled
    \/ ProcessAllReturns

SpecBatch == InitBatch /\ [][NextBatch]_vars

\* The event loop runs every continuation that is ready, and every
\* conversion call settles.
FairSpecBatch ==
    /\ SpecBatch
    /\ WF_vars(StartChunk)
    /\ WF_vars(ChunkSettled)
    /\ WF_vars(ProcessAllReturns)
    /\ \A id \in 1..MaxJobs : WF_vars(ConversionResolves(id) \/ ConversionRejects(id))

\* ------------------------------------------------------ reading the state
\* The lines of the page are complete: the grouping loop has ended.
LinesDone == pc \in {"detect", "layout"} \/ (Len(sections) > 0 /\ pc # "group")

\* The section of the page whose lines are in `lines` has been pushed.
PageBuilt == Len(sections) > 0 /\ pc \in {"getPage", "sort", "failed", "pack", "done"}

LastSection == sections[Len(sections)]

Regions == {"body", "header", "footer"}

RegionLines(r) ==
    IF r = "body" THEN SelectSeq(lines, IsBody)
    ELSE IF r = "header" THEN SelectSeq(lines, IsHeader)
    ELSE SelectSeq(lines, IsFooter)

\* The blocks built from lines: the body's, without the page break put in
\* front of them on the pages after the first.
RegionBlocks(r) ==
    IF r = "body"
    THEN IF Len(sections) > 1 THEN Tail(LastSection.children) ELSE LastSection.children
    ELSE IF r = "header" THEN LastSection.headers
    ELSE LastSection.footers

RECURSIVE Flatten(_)
Flatten(ss) == IF Len(ss) = 0 THEN <<>> ELSE Head(ss) \o Flatten(Tail(ss))

BlockText(b) ==
    IF b.kind = "paragraph" THEN b.text
    ELSE IF b.kind = "table" THEN Flatten([c \in 1..Len(b.cells) |-> b.cells[c].text])
    ELSE <<>>

\* All the text of the page's header, body and footer blocks.
PageText ==
    Flatten([i \in 1..Len(LastSection.headers) |-> BlockText(LastSection.headers[i])])
    \o Flatten([i \in 1..Len(LastSection.children) |-> BlockText(LastSection.children[i])])
    \o Flatten([i \in 1..Len(LastSection.footers) |-> BlockText(LastSection.footers[i])])

KeptItems == SelectSeq(textItems, LAMBDA it : ~TrimEmpty(it.str))

Count(c, str) == Cardinality({i \in 1..Len(str) : str[i] = c})

Letters ==
    UNION {{it.str[j] : j \in 1..Len(it.str)} :
               it \in LinePool \cup PagePool \cup RegionPool \cup ChainPool \cup DocPool}

\* The places of the emitted lines: <<line, position in the line>>.
LineSlots ==
    {sl \in (1..Len(lines)) \X (1..Len(allItems) + 1) : sl[2] <= Len(lines[sl[1]].items)}

\* ------------------------------------------------------------------ claims
\* C1 (conservation): once a page's section is built, every letter of every
\* item the whitespace filter keeps occurs in the texts of the page's header,
\* body and footer blocks exactly as often as in the kept items: no kept
\* item is missing from the blocks, none is put out twice.
C1_Conservation ==
    PageBuilt /\ pc # "sort" =>
        LET out == PageText
            in  == Flatten([i \in 1..Len(KeptItems) |-> KeptItems[i].str])
        IN  \A c \in Letters \ {" "} : Count(c, out) = Count(c, in)

\* A page with a header line, a body line and a footer line has been built.
C1_Witness ==
    /\ PageBuilt /\ pc = "done"
    /\ Len(LastSection.headers) > 0
    /\ Len(LastSection.children) > 0
    /\ Len(LastSection.footers) > 0

\* C2 (line partition): after the grouping loop every item with
\* non-whitespace text is at exactly one place of exactly one emitted line,
\* the items of the last open line included; every place holds such an item
\* and no emitted line is empty.
C2_LinePartition ==
    LinesDone =>
        /\ \A i \in 1..Len(allItems) : ~TrimEmpty(allItems[i].str) =>
               Cardinality({sl \in LineSlots :
                   lines[sl[1]].items[sl[2]].id = allItems[i].id}) = 1
        /\ \A sl \in LineSlots :
               \E i \in 1..Len(allItems) :
                   /\ ~TrimEmpty(allItems[i].str)
                   /\ lines[sl[1]].items[sl[2]] = allItems[i]
        /\ \A l \in 1..Len(lines) : Len(lines[l].items) > 0

\* Two lines were emitted, the second of them by the flush after the loop,
\* and a whitespace item was skipped.
C2_Witness ==
    /\ pc = "detect"
    /\ Len(lines) = 2
    /\ \E i \in 1..Len(allItems) : TrimEmpty(allItems[i].str)

\* Every item of the page has a positive font size and a positive width.
OrdinaryPage ==
    \A i \in 1..Len(allItems) :
        ~allItems[i].nan /\ FontSize(allItems[i]) > 0 /\ allItems[i].width > 0

\* C3 (line order), as claimed: the emitted lines are in top-to-bottom order,
\* the y of a line is never below the y of the line emitted after it.  Stated
\* for the pages of ordinary items, where it already fails.
C3_LinesTopToBottom ==
    LinesDone /\ OrdinaryPage =>
        \A l \in 1..Len(lines) - 1 : lines[l].y >= lines[l + 1].y

\* The columns of the emitted line l.
ColumnsOf(l) == DetectColumns(lines[l].items)

\* C4 (order within a line), as claimed: the Xs of a line's items increase
\* strictly, and every item of an earlier column lies strictly left of every
\* item of a later column.  Stated for the pages of ordinary items, where it
\* already fails.
C4_StrictlyIncreasingX ==
    LinesDone /\ OrdinaryPage =>
        \A l \in 1..Len(lines) :
            /\ \A j \in 1..Len(lines[l].items) - 1 :
                   X(lines[l].items[j]) < X(lines[l].items[j + 1])
            /\ \A c, d \in 1..Len(ColumnsOf(l)) : c < d =>
                   \A i \in 1..Len(ColumnsOf(l)[c]), j \in 1..Len(ColumnsOf(l)[d]) :
                       X(ColumnsOf(l)[c][i]) < X(ColumnsOf(l)[d][j])

\* C4, amended: the Xs of a line's items never decrease (items of equal X
\* stay in one line), and no item of an earlier column lies right of an item
\* of a later column; it lies strictly left of it when no item of the line
\* has a negative width.
C4_NonDecreasingX ==
    LinesDone =>
        \A l \in 1..Len(lines) :
            /\ \A j \in 1..Len(lines[l].items) - 1 :
                   X(lines[l].items[j]) <= X(lines[l].items[j + 1])
            /\ \A c, d \in 1..Len(ColumnsOf(l)) : c < d =>
                   \A i \in 1..Len(ColumnsOf(l)[c]), j \in 1..Len(ColumnsOf(l)[d]) :
                       /\ X(ColumnsOf(l)[c][i]) <= X(ColumnsOf(l)[d][j])
                       /\ (\A m \in 1..Len(lines[l].items) : lines[l].items[m].width >= 0)
                              => X(ColumnsOf(l)[c][i]) < X(ColumnsOf(l)[d][j])

\* A line whose items were pushed right to left (the item pushed last lies
\* left of the one pushed first) and were split into two columns.
C4_Witness ==
    /\ pc = "detect"
    /\ \E l \in 1..Len(lines) :
         /\ Len(ColumnsOf(l)) = 2
         /\ \E i, j \in 1..Len(lines[l].items) :
                /\ i < j
                /\ \E a, b \in 1..Len(allItems) :
                       /\ a < b
                       /\ allItems[a] = lines[l].items[j]
                       /\ allItems[b] = lines[l].items[i]
                       /\ X(allItems[b]) < X(allItems[a])

\* C5 (column partition): the columns of every emitted line are non-empty
\* and, put one after the other, are the line's items in the line's order.
C5_ColumnPartition ==
    LinesDone =>
        \A l \in 1..Len(lines) :
            /\ \A c \in 1..Len(ColumnsOf(l)) : Len(ColumnsOf(l)[c]) > 0
            /\ Flatten(ColumnsOf(l)) = lines[l].items

\* A line of three items in two columns.
C5_Witness ==
    /\ pc = "detect"
    /\ \E l \in 1..Len(lines) :
           Len(lines[l].items) = 3 /\ Len(ColumnsOf(l)) = 2

\* C6 (block shape): in each of the three groups every line has exactly one
\* block, in the lines' order: a paragraph for a line of one column, a table
\* of k cells for a line of k >= 2 columns; no table has fewer than 2 cells.
C6_BlockShape ==
    PageBuilt =>
        \A r \in Regions :
            /\ Len(RegionBlocks(r)) = Len(RegionLines(r))
            /\ \A i \in 1..Len(RegionBlocks(r)) :
                   LET b == RegionBlocks(r)[i]
                       n == Len(DetectColumns(RegionLines(r)[i].items))
                   IN  /\ n = 1 => b.kind = "paragraph"
                       /\ n >= 2 => b.kind = "table" /\ Len(b.cells) = n
                       /\ b.kind = "table" => Len(b.cells) >= 2

\* A page with a paragraph and a table of two cells has been built.
C6_Witness ==
    /\ PageBuilt /\ pc = "done"
    /\ \E i, j \in 1..Len(LastSection.children) :
           /\ LastSection.children[i].kind = "paragraph"
           /\ LastSection.children[j].kind = "table"
           /\ Len(LastSection.children[j].cells) = 2

\* ------------------------------------------------- the specification's gap
\* The quantities of the column rule as the specification defines them, on a
\* token whose width, when it is not positive, is the estimate
\* text.length * 0.5 * fontSize.  They are kept doubled, so that they stay
\* integers.
SpecDefined(prev) == prev.width > 0 \/ ~prev.nan

SpecWidth2(it) == IF it.width > 0 THEN 2 * it.width ELSE Len(it.str) * FontSize(it)

\* 2 * gap, gap = current.baselineX - (previous.baselineX + previous.width).
SpecGap2(prev, curr) == 2 * (X(curr) - X(prev)) - SpecWidth2(prev)

Max1(n) == IF n > 1 THEN n ELSE 1

\* gap > max(20, charWidth * 3), charWidth = previous.width / max(1, length).
SpecGapLarge(prev, curr) ==
    /\ SpecDefined(prev)
    /\ SpecGap2(prev, curr) > 40
    /\ SpecGap2(prev, curr) * Max1(Len(prev.str)) > 3 * SpecWidth2(prev)

RECURSIVE SumLen(_, _)
\* The number of items in the first c columns.
SumLen(columns, c) == IF c = 0 THEN 0 ELSE Len(columns[c]) + SumLen(columns, c - 1)

\* The items j - 1 and j of a line's items are in different columns.
SplitIn(items, j) ==
    \E c \in 1..Len(DetectColumns(items)) - 1 : SumLen(DetectColumns(items), c) = j - 1

SplitBefore(l, j) == SplitIn(lines[l].items, j)

\* The column of the item j of a line's items.
ColumnIn(items, j) ==
    CHOOSE c \in 1..Len(DetectColumns(items)) :
        SumLen(DetectColumns(items), c - 1) < j /\ j <= SumLen(DetectColumns(items), c)

\* C7 (split direction): two adjacent items of a line whose gap is greater
\* than max(20, charWidth * 3) are in different columns.
C7_LargeGapSplits ==
    LinesDone =>
        \A l \in 1..Len(lines) : \A j \in 2..Len(lines[l].items) :
            SpecGapLarge(lines[l].items[j - 1], lines[l].items[j]) => SplitBefore(l, j)

\* A line with a gap greater than 20 and than 3 * charWidth, split there.
C7_Witness ==
    /\ pc = "detect"
    /\ \E l \in 1..Len(lines) : \E j \in 2..Len(lines[l].items) :
           /\ SpecGapLarge(lines[l].items[j - 1], lines[l].items[j])
           /\ lines[l].items[j - 1].width > 0
           /\ SplitBefore(l, j)

\* C8 (absolute floor), as claimed: two adjacent items of a line are in
\* different columns only when their gap is greater than
\* max(20, charWidth * 3); a gap of at most 20 never splits.  Stated for the
\* pages of ordinary items, where it already fails.
C8_SplitOnlyAboveFloor ==
    LinesDone /\ OrdinaryPage =>
        \A l \in 1..Len(lines) : \A j \in 2..Len(lines[l].items) :
            SplitBefore(l, j) => SpecGapLarge(lines[l].items[j - 1], lines[l].items[j])

\* gap > charWidth * 3 with the code's own charWidth and previous end:
\* charWidth is width / length for a positive width and fontSize / 2
\* otherwise; the previous end is X + width, and X + length * charWidth for
\* a width of 0.
CodeGapLarge(prev, curr) ==
    LET len == Len(prev.str)
    IN  \/ /\ prev.width > 0
           /\ len * (X(curr) - X(prev) - prev.width) > 3 * prev.width
        \/ /\ prev.width < 0 /\ ~prev.nan
           /\ 2 * (X(curr) - X(prev) - prev.width) > 3 * FontSize(prev)
        \/ /\ prev.width = 0 /\ ~prev.nan
           /\ 2 * (X(curr) - X(prev)) > (len + 3) * FontSize(prev)

\* C8, amended: two adjacent items of a line are in different columns only
\* when their gap is greater than charWidth * 3; there is no floor of 20.
C8_SplitOnlyAboveThreeChars ==
    LinesDone =>
        \A l \in 1..Len(lines) : \A j \in 2..Len(lines[l].items) :
            SplitBefore(l, j) => CodeGapLarge(lines[l].items[j - 1], lines[l].items[j])

\* A line split at a gap of at most 20 after an item of positive width.
C8_Witness ==
    /\ pc = "detect"
    /\ \E l \in 1..Len(lines) : \E j \in 2..Len(lines[l].items) :
           /\ SplitBefore(l, j)
           /\ lines[l].items[j - 1].width > 0
           /\ SpecGap2(lines[l].items[j - 1], lines[l].items[j]) <= 40

\* The text run holding the items of column c: the paragraph's text, or the
\* text of the table's cell c.
RunText(b, c) ==
    IF b.kind = "paragraph" THEN b.text
    ELSE IF b.kind = "table" /\ c <= Len(b.cells) THEN b.cells[c].text
    ELSE <<>>

\* The text t holds the text u as one piece.
Contains(t, u) == \E o \in 0..Len(t) - Len(u) : SubSeq(t, o + 1, o + Len(u)) = u

\* C9 (merge at or below the word break), as claimed: two adjacent items of
\* a line whose gap is at most 2 are in the same column, and the text run of
\* that column holds their texts one right after the other, without a space
\* between them.  Stated for the pairs whose first item has a positive width
\* and font size, where it already fails.
C9_SmallGapMerges ==
    PageBuilt =>
        \A r \in Regions :
            /\ Len(RegionBlocks(r)) = Len(RegionLines(r))
            /\ \A i \in 1..Len(RegionLines(r)) :
                   LET items == RegionLines(r)[i].items
                   IN  \A j \in 2..Len(items) :
                           (/\ items[j - 1].width > 0
                            /\ ~items[j - 1].nan
                            /\ FontSize(items[j - 1]) > 0
                            /\ SpecGap2(items[j - 1], items[j]) <= 4)
                           => /\ ~SplitIn(items, j)
                              /\ Contains(RunText(RegionBlocks(r)[i], ColumnIn(items, j)),
                                          items[j - 1].str \o items[j].str)

RECURSIVE ClaimedJoin(_)
\* The join C10 claims: one space between two adjacent items when the later
\* item's X minus the earlier item's right edge is greater than 2, nothing
\* otherwise.
ClaimedJoin(items) ==
    IF Len(items) = 0 THEN <<>>
    ELSE IF Len(items) = 1 THEN items[1].str
    ELSE items[1].str
         \o (IF X(items[2]) - (X(items[1]) + items[1].width) > 2 THEN <<" ">> ELSE <<>>)
         \o ClaimedJoin(Tail(items))

\* C10 (paragraph text), as claimed: the text of the paragraph of a
\* one-column line is the items' texts from left to right, with one space
\* between two adjacent items exactly when their gap is greater than 2,
\* whatever the earlier item's right edge.  Stated for the pages of ordinary
\* items, where it already fails.
C10_ParagraphJoin ==
    PageBuilt /\ OrdinaryPage =>
        \A r \in Regions :
            /\ Len(RegionBlocks(r)) = Len(RegionLines(r))
            /\ \A i \in 1..Len(RegionLines(r)) :
                   RegionBlocks(r)[i].kind = "paragraph" =>
                       RegionBlocks(r)[i].text = ClaimedJoin(RegionLines(r)[i].items)

\* The region the claims assign to a line of baseline y on a page of the
\* given height: above 0.90 of the height the header, below 0.10 of it the
\* footer, the body otherwise.
ClaimedRegion(y, height) ==
    IF 10 * y > 9 * height THEN "header"
    ELSE IF 10 * y < height THEN "footer"
    ELSE "body"

\* The page's lines are flagged and pageHeight is still the page's height.
LinesFlagged == pc = "layout" \/ (PageBuilt /\ pc # "sort")

\* C11 (region classification): a line is a header line exactly when its y
\* is above 0.90 of the page height and a footer line exactly when its y is
\* below 0.10 of it, whatever else is on the page; a line exactly on a
\* threshold is a body line.  The header, body and footer blocks of the
\* built page are as many as the lines the thresholds put in each region.
C11_RegionByThreshold ==
    LinesFlagged =>
        /\ \A l \in 1..Len(lines) :
               /\ lines[l].isHeader <=> ClaimedRegion(lines[l].y, pageHeight) = "header"
               /\ lines[l].isFooter <=> ClaimedRegion(lines[l].y, pageHeight) = "footer"
               /\ IsBody(lines[l]) <=> ClaimedRegion(lines[l].y, pageHeight) = "body"
        /\ PageBuilt =>
               \A r \in Regions :
                   Len(RegionBlocks(r)) =
                       Cardinality({l \in 1..Len(lines) :
                           ClaimedRegion(lines[l].y, pageHeight) = r})

\* A page was built with a line exactly on the header threshold and a line
\* exactly on the footer threshold, both of them in the body.
C11_Witness ==
    /\ PageBuilt /\ pc = "done"
    /\ \E l \in 1..Len(lines) : 10 * lines[l].y = 9 * pageHeight
    /\ \E l \in 1..Len(lines) : 10 * lines[l].y = pageHeight
    /\ Len(LastSection.children) = 2
    /\ Len(LastSection.headers) = 0
    /\ Len(LastSection.footers) = 0

\* The text of the items of a line, one item after the other.
LineText(line) == Flatten([j \in 1..Len(line.items) |-> line.items[j].str])

\* The block holds the letters of the line, each as often as the line.
BlockOfLine(b, line) ==
    LET out == BlockText(b)
        in  == LineText(line)
    IN  \A c \in Letters \ {" "} : Count(c, out) = Count(c, in)

\* C12 (page assembly order): the header, the body and the footer blocks of
\* a built page are each as many as the lines of that region, and the i-th
\* block of a region holds the letters of the i-th line of the region and
\* no others: the blocks keep the order of the emitted lines, each is built
\* from one line, and none mixes lines of two regions.
C12_BlocksFollowLines ==
    PageBuilt /\ pc # "sort" =>
        \A r \in Regions :
            /\ Len(RegionBlocks(r)) = Len(RegionLines(r))
            /\ \A i \in 1..Len(RegionLines(r)) :
                   BlockOfLine(RegionBlocks(r)[i], RegionLines(r)[i])

\* A page was built whose body has two lines of different texts and whose
\* header has a line.
C12_Witness ==
    /\ PageBuilt /\ pc = "done"
    /\ Len(RegionLines("body")) = 2
    /\ LineText(RegionLines("body")[1]) # LineText(RegionLines("body")[2])
    /\ Len(RegionLines("header")) = 1

SectionBlocks(p) ==
    [header |-> sections[p].headers,
     body   |-> IF p > 1 THEN Tail(sections[p].children) ELSE sections[p].children,
     footer |-> sections[p].footers]

\* C14 (determinism): when the two pages of a document have the same items
\* and the same height, the page pipeline has run twice on the same input,
\* the second time from whatever the first run left behind; the header,
\* body and footer blocks of the two sections are then the same.
C14_SameInputSameBlocks ==
    Len(sections) = 2 /\ pdf[1] = pdf[2] => SectionBlocks(1) = SectionBlocks(2)

\* A document of two equal pages was converted, each page with a line left
\* open at the end of the loop and blocks in two regions.
C14_Witness ==
    /\ pc = "done"
    /\ pdf[1] = pdf[2]
    /\ Len(sections) = 2
    /\ Len(currentLineItems) > 0
    /\ Len(sections[2].headers) + Len(sections[2].footers) > 0
    /\ Len(sections[2].children) > 1

\* What one page alone determines.  The items of the page, numbered and
\* sorted:
SortedOf(page) ==
    StableYX([i \in 1..Len(page.items) |->
                 [id        |-> i,
                  str       |-> page.items[i].str,
                  transform |-> page.items[i].transform,
                  width     |-> page.items[i].width,
                  nan       |-> page.items[i].nan]])

\* the lines the grouping loop makes of sorted items, as <<y, items>>:
RECURSIVE GroupOf(_, _, _, _)
GroupOf(items, lineY, open, done) ==
    IF Len(items) = 0
    THEN IF Len(open) > 0 THEN Append(done, <<lineY, StableX(open)>>) ELSE done
    ELSE LET item == Head(items)
         IN  IF TrimEmpty(item.str)
             THEN GroupOf(Tail(items), lineY, open, done)
             ELSE IF lineY = -1 \/ (~item.nan /\ 2 * Abs(lineY - Y(item)) < FontSize(item))
             THEN GroupOf(Tail(items), Y(item), Append(open, item), done)
             ELSE GroupOf(Tail(items), Y(item), <<item>>,
                          Append(done, <<lineY, StableX(open)>>))

\* and the blocks of the lines of region r.
BlocksOf(page, r) ==
    LET ls == SelectSeq(GroupOf(SortedOf(page), -1, <<>>, <<>>),
                        LAMBDA l : ClaimedRegion(l[1], page.height) = r)
    IN  [i \in 1..Len(ls) |-> LineToChild([items |-> ls[i][2]])]

\* C15 (page independence): the header, body and footer blocks of every
\* built section are those that the section's own page determines by its
\* items and its height alone, whatever the other page of the document is;
\* and every letter of a section's blocks is a letter of an item of its own
\* page.
C15_PageIndependence ==
    \A p \in 1..Len(sections) :
        /\ SectionBlocks(p) = [r \in {"header", "body", "footer"} |-> BlocksOf(pdf[p], r)]
        /\ \A r \in {"header", "body", "footer"} :
               \A i \in 1..Len(SectionBlocks(p)[r]) :
                   \A c \in Letters \ {" "} :
                       Count(c, BlockText(SectionBlocks(p)[r][i])) > 0 =>
                           \E j \in 1..Len(pdf[p].items) : Count(c, pdf[p].items[j].str) > 0

\* A document was converted whose two pages differ in their items and in
\* their height, each of them with a block.
C15_Witness ==
    /\ pc = "done"
    /\ Len(sections) = 2
    /\ pdf[1].height # pdf[2].height
    /\ \A i \in 1..Len(pdf[1].items), j \in 1..Len(pdf[2].items) :
           pdf[1].items[i] # pdf[2].items[j]
    /\ Len(sections[1].headers) > 0
    /\ Len(sections[2].footers) > 0

\* All the text of the blocks of the p-th section.
SectionText(p) ==
    Flatten([i \in 1..Len(sections[p].headers) |-> BlockText(sections[p].headers[i])])
    \o Flatten([i \in 1..Len(sections[p].children) |-> BlockText(sections[p].children[i])])
    \o Flatten([i \in 1..Len(sections[p].footers) |-> BlockText(sections[p].footers[i])])

\* All the text of the items of a page.
ItemsText(page) == Flatten([i \in 1..Len(page.items) |-> page.items[i].str])

\* C17 (document order): at every moment the sections pushed are those of
\* the pages before pageNum, one to a page and in the order of the pages:
\* the p-th section holds the letters of the items of page p, each as often
\* as the page, and starts with a page break exactly when p > 1.  When the
\* document is packed there is one section for every page.
C17_SectionPerPage ==
    /\ Len(sections) = pageNum - 1
    /\ pc \in {"pack", "done"} => Len(sections) = numPages
    /\ \A p \in 1..Len(sections) :
           /\ LET out == SectionText(p)
                  in  == ItemsText(pdf[p])
              IN  \A c \in Letters \ {" "} : Count(c, out) = Count(c, in)
           /\ p > 1 <=> (Len(sections[p].children) > 0
                             /\ sections[p].children[1] = PageBreakPara)

\* A document was packed whose first page holds only the one item and whose
\* second page holds only the other.
C17_Witness ==
    /\ pc = "done"
    /\ Len(sections) = 2
    /\ Count("a", SectionText(1)) > 0 /\ Count("e", SectionText(1)) = 0
    /\ Count("e", SectionText(2)) > 0 /\ Count("a", SectionText(2)) = 0

\* All the items of the line have the same y.
OneBaseline(line) == \A i, j \in 1..Len(line.items) : Y(line.items[i]) = Y(line.items[j])

\* The number of cells of a table, 1 for a paragraph.
NumCells(b) == IF b.kind = "table" THEN Len(b.cells) ELSE 1

\* The block of the line is a table with one cell for each item of the
\* line, in the line's order, and the cell holds the item's text.
OneItemPerCell(b, line) ==
    /\ b.kind = "table"
    /\ Len(b.cells) = Len(line.items)
    /\ \A j \in 1..Len(line.items) : b.cells[j].text = line.items[j].str

\* C16 (cell count), as claimed: the block of a line whose items share one
\* baseline has 1 + (number of adjacent pairs whose gap is greater than
\* max(20, charWidth * 3)) cells, and n >= 2 items whose gaps are all
\* greater than that give a table of n cells, one item to a cell.  Stated for
\* the pages of ordinary items, where it already fails.
C16_CellCountAboveFloor ==
    PageBuilt /\ pc # "sort" /\ OrdinaryPage =>
        \A r \in Regions : \A i \in 1..Len(RegionLines(r)) :
            LET line == RegionLines(r)[i]
                b    == RegionBlocks(r)[i]
                n    == Len(line.items)
            IN  OneBaseline(line) =>
                    /\ NumCells(b) = 1 + Cardinality({j \in 2..n :
                            SpecGapLarge(line.items[j - 1], line.items[j])})
                    /\ (n >= 2 /\ \A j \in 2..n :
                            SpecGapLarge(line.items[j - 1], line.items[j]))
                           => OneItemPerCell(b, line)

\* C16, amended: the block of a line whose items share one baseline has
\* 1 + (number of adjacent pairs whose gap is greater than charWidth * 3)
\* cells, and n >= 2 items whose gaps are all greater than that give a table
\* of n cells, one item to a cell; there is no floor of 20.
C16_CellCount ==
    PageBuilt /\ pc # "sort" =>
        \A r \in Regions : \A i \in 1..Len(RegionLines(r)) :
            LET line == RegionLines(r)[i]
                b    == RegionBlocks(r)[i]
                n    == Len(line.items)
            IN  OneBaseline(line) =>
                    /\ NumCells(b) = 1 + Cardinality({j \in 2..n :
                            CodeGapLarge(line.items[j - 1], line.items[j])})
                    /\ (n >= 2 /\ \A j \in 2..n :
                            CodeGapLarge(line.items[j - 1], line.items[j]))
                           => OneItemPerCell(b, line)

\* A line of three items on one baseline, both gaps greater than
\* charWidth * 3 and one of them greater than 20 too, became a table of
\* three cells.
C16_Witness ==
    /\ PageBuilt /\ pc = "done"
    /\ OrdinaryPage
    /\ \E r \in Regions : \E i \in 1..Len(RegionLines(r)) :
           LET line == RegionLines(r)[i]
           IN  /\ Len(line.items) = 3
               /\ OneBaseline(line)
               /\ CodeGapLarge(line.items[1], line.items[2])
               /\ CodeGapLarge(line.items[2], line.items[3])
               /\ SpecGapLarge(line.items[2], line.items[3])
               /\ OneItemPerCell(RegionBlocks(r)[i], line)

Max(m, n) == IF m > n THEN m ELSE n

\* The loop is about to handle the item allItems[k], which is not blank,
\* while the open line holds an item.
AtItemWithOpenLine ==
    /\ pc = "group"
    /\ k <= Len(allItems)
    /\ ~TrimEmpty(allItems[k].str)
    /\ Len(currentLineItems) > 0

\* |item.y - currentLineY| < max(item font size, previous font size) * 0.5,
\* the previous item being the one that joined the open line last.
ClaimedTolerance(item) ==
    2 * Abs(Y(item) - currentLineY)
        < Max(FontSize(item), FontSize(currentLineItems[Len(currentLineItems)]))

\* C19 (clustering tolerance), as claimed: an item joins the open line
\* exactly when its y differs from the line's y by less than half the
\* larger of its font size and the previous item's; otherwise the line is
\* closed and the item starts a new one, whatever the y values are.  Stated
\* for the pages of ordinary items, where it already fails.
C19_JoinsWithinTolerance ==
    [][AtItemWithOpenLine /\ OrdinaryPage =>
          IF ClaimedTolerance(allItems[k])
          THEN /\ currentLineItems' = Append(currentLineItems, allItems[k])
               /\ lines' = lines
          ELSE /\ currentLineItems' = <<allItems[k]>>
               /\ Len(lines') = Len(lines) + 1]_vars

\* The largest font size of the items of a line.
MaxFontSize(line) ==
    CHOOSE h \in {FontSize(line.items[j]) : j \in 1..Len(line.items)} :
        \A j \in 1..Len(line.items) : FontSize(line.items[j]) <= h

\* No item of the page lies on the baseline -1, the initial value of
\* currentLineY.
NoItemAtInitialY == \A i \in 1..Len(allItems) : Y(allItems[i]) # -1

\* C20 (line baseline invariant), as claimed: the ys of any two items of an
\* emitted line, consecutive or not, differ by less than one tolerance,
\* taken here as half the largest font size of the line.  Stated for the
\* pages of ordinary items none of which lies on the baseline -1, where it
\* already fails.
C20_LineWithinOneTolerance ==
    LinesDone /\ OrdinaryPage /\ NoItemAtInitialY =>
        \A l \in 1..Len(lines) : \A i, j \in 1..Len(lines[l].items) :
            2 * Abs(Y(lines[l].items[i]) - Y(lines[l].items[j])) < MaxFontSize(lines[l])

\* C21 (cell text), as claimed: the text of every cell of a table is made of
\* the items of its column by the join of a paragraph: one space between
\* two adjacent items exactly when their gap is greater than 2, nothing
\* otherwise.  Stated for the pages of ordinary items, where it already
\* fails.
C21_CellJoin ==
    PageBuilt /\ pc # "sort" /\ OrdinaryPage =>
        \A r \in Regions : \A i \in 1..Len(RegionLines(r)) :
            LET columns == DetectColumns(RegionLines(r)[i].items)
                b       == RegionBlocks(r)[i]
            IN  b.kind = "table" =>
                    \A c \in 1..Len(b.cells) : b.cells[c].text = ClaimedJoin(columns[c])

\* The lines of the page as <<y, items>>.
LinesAsPairs == [l \in 1..Len(lines) |-> <<lines[l].y, lines[l].items>>]

\* C22 (whitespace items dropped), as claimed: no whitespace item is in a
\* line, and the whitespace items of a page do not affect the lines made of
\* the other items: the lines are those of the page without its whitespace
\* items.  Stated for the pages of ordinary items whose other items the
\* comparator orders consistently, where it already fails.
C22_BlanksChangeNothing ==
    pc = "detect" /\ OrdinaryPage /\ ConsistentYX(KeptItems) =>
        /\ \A l \in 1..Len(lines) : \A j \in 1..Len(lines[l].items) :
               ~TrimEmpty(lines[l].items[j].str)
        /\ LinesAsPairs = GroupOf(StableYX(KeptItems), -1, <<>>, <<>>)

\* sqrt(a^2 + b^2) of the item is NaN or not positive.
BadFontSize(it) == it.nan \/ FontSize(it) <= 0

\* C23 (uninterpretable font size dropped), as claimed: an item whose font
\* size is NaN or not positive is in no line, and the built page has no
\* letter of such an item that no other item of the page has.
C23_BadFontDropped ==
    /\ pc = "detect" =>
           \A l \in 1..Len(lines) : \A j \in 1..Len(lines[l].items) :
               ~BadFontSize(lines[l].items[j])
    /\ PageBuilt /\ pc # "sort" =>
           LET out  == PageText
               good == SelectSeq(textItems, LAMBDA it : ~BadFontSize(it))
               in   == Flatten([i \in 1..Len(good) |-> good[i].str])
           IN  \A c \in Letters \ {" "} : Count(c, out) > 0 => Count(c, in) > 0

\* The item's width is zero or negative while its font size is positive.
NoWidth(it) == it.width <= 0 /\ ~it.nan /\ FontSize(it) > 0

\* C24 (width estimate), as claimed: for two adjacent items of a line whose
\* first has a width that is not positive, the column test and the word
\* break test both measure the gap from X + str.length * 0.5 * fontSize:
\* the items are in different columns exactly when that gap is greater
\* than 3 * charWidth, charWidth = 0.5 * fontSize, and in a paragraph their
\* texts are joined with a space exactly when that gap is greater than 2.
\* Stated for first items of positive font size whose X + width is not -1.
C24_WidthEstimateUsed ==
    PageBuilt /\ pc # "sort" =>
        \A r \in Regions : \A i \in 1..Len(RegionLines(r)) :
            LET items == RegionLines(r)[i].items
                b     == RegionBlocks(r)[i]
            IN  \A j \in 2..Len(items) :
                    LET prev == items[j - 1]
                        curr == items[j]
                        gap2 == 2 * (X(curr) - X(prev)) - Len(prev.str) * FontSize(prev)
                    IN  (NoWidth(prev) /\ X(prev) + prev.width # -1) =>
                            /\ SplitIn(items, j) <=> gap2 > 3 * FontSize(prev)
                            /\ b.kind = "paragraph" =>
                                   Contains(b.text,
                                       prev.str \o (IF gap2 > 4 THEN <<" ">> ELSE <<>>)
                                           \o curr.str)

\* C25 (equal width split): in every table of a built page each of the k
\* cells has the width 100 / k percent: the same for all cells of the row,
\* positive, whatever the positions and widths of the items are.
C25_EqualWidthSplit ==
    PageBuilt /\ pc # "sort" =>
        \A r \in Regions : \A i \in 1..Len(RegionBlocks(r)) :
            LET b == RegionBlocks(r)[i]
            IN  b.kind = "table" =>
                    \A c \in 1..Len(b.cells) :
                        /\ b.cells[c].width.den > 0
                        /\ b.cells[c].width.num > 0
                        /\ b.cells[c].width.num * Len(b.cells) = 100 * b.cells[c].width.den
                        /\ b.cells[c].width = b.cells[1].width

\* A table of two cells was built from a line of three items, so that one
\* column holds two items and the other one; and its first item has a
\* width that is not positive.
C25_Witness ==
    /\ PageBuilt /\ pc = "done"
    /\ \E r \in Regions : \E i \in 1..Len(RegionBlocks(r)) :
           /\ RegionBlocks(r)[i].kind = "table"
           /\ Len(RegionBlocks(r)[i].cells) = 2
           /\ Len(RegionLines(r)[i].items) = 3
           /\ RegionLines(r)[i].items[1].width <= 0

\* C26 (paragraph indent and size): the indent of the paragraph of a line is
\* 15 times the X of the line's first item, which no item of the line lies
\* left of, and the paragraph's size is the run size of that first item;
\* the other items of the line do not change either value.
C26_IndentAndSizeOfFirst ==
    PageBuilt /\ pc # "sort" =>
        \A r \in Regions : \A i \in 1..Len(RegionBlocks(r)) :
            LET b     == RegionBlocks(r)[i]
                items == RegionLines(r)[i].items
            IN  b.kind = "paragraph" =>
                    /\ b.indent = 15 * X(items[1])
                    /\ \A j \in 1..Len(items) : X(items[1]) <= X(items[j])
                    /\ b.size = RunSize(items[1])

\* A paragraph was built from a line of two items of different X and of
\* different run size.
C26_Witness ==
    /\ PageBuilt /\ pc = "done"
    /\ \E r \in Regions : \E i \in 1..Len(RegionBlocks(r)) :
           /\ RegionBlocks(r)[i].kind = "paragraph"
           /\ Len(RegionLines(r)[i].items) = 2
           /\ X(RegionLines(r)[i].items[1]) # X(RegionLines(r)[i].items[2])
           /\ RunSize(RegionLines(r)[i].items[1]) # RunSize(RegionLines(r)[i].items[2])

\* C27 (region exclusivity): on a page of positive height no flagged line is
\* both a header and a footer line; every line is in exactly one of the
\* header, the footer and the body group, and the blocks of the built page
\* are together as many as the lines.
C27_RegionsExclusive ==
    LinesFlagged /\ pageHeight > 0 =>
        /\ \A l \in 1..Len(lines) :
               /\ ~(lines[l].isHeader /\ lines[l].isFooter)
               /\ Cardinality({r \in Regions :
                      \E i \in 1..Len(RegionLines(r)) : RegionLines(r)[i] = lines[l]}) = 1
        /\ Len(RegionLines("header")) + Len(RegionLines("body"))
               + Len(RegionLines("footer")) = Len(lines)
        /\ PageBuilt =>
               Len(RegionBlocks("header")) + Len(RegionBlocks("body"))
                   + Len(RegionBlocks("footer")) = Len(lines)

\* A page of three lines was built: one header, one body and one footer
\* line.
C27_Witness ==
    /\ PageBuilt /\ pc = "done"
    /\ pageHeight > 0
    /\ Len(lines) = 3
    /\ \A r \in Regions : Len(RegionLines(r)) = 1

Reverse(s) == [i \in 1..Len(s) |-> s[Len(s) + 1 - i]]

\* An item without the mark of its place in the input.
Unmarked(it) ==
    [str |-> it.str, transform |-> it.transform, width |-> it.width, nan |-> it.nan]

\* Lines given as <<y, items>>, the items unmarked.
UnmarkedLines(ls) ==
    [l \in 1..Len(ls) |-> <<ls[l][1], [j \in 1..Len(ls[l][2]) |-> Unmarked(ls[l][2][j])]>>]

\* C28 (input-order independence), as claimed: the comparator of the sort
\* is a consistent order on the items of the page, and the lines of the
\* page are those the same items give when they are supplied in the
\* reverse order.  Stated for the pages of ordinary items, where it already
\* fails.
C28_OrderIndependent ==
    pc = "detect" /\ OrdinaryPage =>
        /\ ConsistentYX(textItems)
        /\ ConsistentYX(textItems) =>
               UnmarkedLines(LinesAsPairs)
                   = UnmarkedLines(GroupOf(StableYX(Reverse(textItems)), -1, <<>>, <<>>))

\* C29 (all-or-nothing conversion): the document is saved at most once, and
\* only when the conversion is done with a section pushed for every page
\* 1..numPages, all of them decoded; packing begins only then; and when the
\* conversion has failed, on a page or in packing, nothing has been saved.
C29_AllOrNothing ==
    /\ saved \in {0, 1}
    /\ saved = 1 <=> pc = "done"
    /\ pc \in {"pack", "done"} =>
           /\ pageNum = numPages + 1
           /\ Len(sections) = numPages
           /\ \A p \in 1..numPages : pdf[p].ok
    /\ pc = "failed" => saved = 0
    /\ (\E p \in 1..numPages : ~pdf[p].ok) => saved = 0

\* The second page of a document could not be decoded after the section of
\* the first had been pushed: the conversion has failed and nothing is
\* saved.
C29_Witness ==
    /\ pc = "failed"
    /\ Len(sections) = 1
    /\ pdf[1].ok /\ ~pdf[2].ok
    /\ saved = 0

\* The status of the job `id` in the list.
StatusOf(id) == jobs[CHOOSE i \in 1..Len(jobs) : jobs[i].id = id].status

Settled(id) ==
    \E i \in 1..Len(jobs) : jobs[i].id = id /\ jobs[i].status \in {"completed", "error"}

\* The jobs processAll took: the ones that were idle when it ran.
BatchIds == UNION {IdsOf(chunks[c]) : c \in 1..Len(chunks)}

\* The idle jobs of the list, in the order of the list.
IdleIds == SelectSeq([i \in 1..Len(jobs) |-> jobs[i].id], LAMBDA id : StatusOf(id) = "idle")

\* The ids of the chunks one after another.
RECURSIVE ChunkIdsFrom(_)
ChunkIdsFrom(c) ==
    IF c > Len(chunks) THEN <<>>
    ELSE [i \in 1..Len(chunks[c]) |-> chunks[c][i].id] \o ChunkIdsFrom(c + 1)

\* While processAll runs: the chunks hold the idle jobs in the order of the
\* list, at most ChunkSize to a chunk; only jobs of the current chunk are in
\* flight, so at most ChunkSize are; every job of an earlier chunk is
\* completed or in error; no job of a later chunk has been started.
ChunksInTurn ==
    /\ Cardinality(inFlight) <= ChunkSize
    /\ allPc # "await" => inFlight = {}
    /\ allPc # "ready" =>
          /\ \A c \in 1..Len(chunks) : Len(chunks[c]) \in 1..ChunkSize
          /\ allPc = "next" /\ chunk = 1 => ChunkIdsFrom(1) = IdleIds
          /\ allPc = "await" => chunk <= Len(chunks) /\ inFlight \subseteq IdsOf(chunks[chunk])
          /\ allPc = "done" => chunk = Len(chunks) + 1
          /\ \A c \in 1..Len(chunks) : \A id \in IdsOf(chunks[c]) :
                /\ c < chunk => Settled(id)
                /\ c = chunk /\ allPc = "await" /\ id \notin inFlight => Settled(id)
                /\ c = chunk /\ allPc = "await" /\ id \in inFlight =>
                      StatusOf(id) \in {"uploading", "processing"}
                /\ c > chunk \/ (c = chunk /\ allPc = "next") => StatusOf(id) = "idle"

\* C30: when processAll runs, the jobs that were idle are started in chunks
\* of at most 3, so that at most 3 of its conversions are in flight at any
\* time; a chunk is started only when every job of the chunk before it is
\* completed or in error; and, every conversion call settling, every job that
\* was idle comes to be completed or in error, whichever jobs fail.
C30_ChunksOfThree ==
    /\ []ChunksInTurn
    /\ allPc # "ready" ~> (allPc = "done" /\ \A id \in BatchIds : Settled(id))

\* processAll has returned after three chunks, the first with a job that
\* failed and the last with a job that was converted.
C30_Witness ==
    /\ allPc = "done"
    /\ Len(chunks) = 3
    /\ \E id \in IdsOf(chunks[1]) : StatusOf(id) = "error"
    /\ \E id \in IdsOf(chunks[1]) : StatusOf(id) = "completed"
    /\ \E id \in IdsOf(chunks[3]) : StatusOf(id) = "completed"
    /\ \A id \in BatchIds : Settled(id)

====
